---- MODULE Spec2Model ----
(***************************************************************************)
(* A model of the segregated-free-list allocator of src/mm.c.              *)
(*                                                                         *)
(* The heap is a word-addressed store; addresses are byte addresses and    *)
(* every address the allocator uses is a multiple of WSIZE.  The operators *)
(* of the allocator are written as functions from a heap record to a heap  *)
(* record, one per C function, statement by statement.  A heap record has  *)
(* the fields                                                              *)
(*   mem, brk, max            the backing store of memlib and its break    *)
(*   heap_listp, free_listp,                                               *)
(*   failedsize               the three globals of mm.c                    *)
(*   ret                      the value returned by the last function      *)
(*   stat                     "run", or why the run cannot be followed     *)
(*                            further ("ub": an access outside the backing *)
(*                            store; "corrupt": link words written over    *)
(*                            boundary tags)                               *)
(*   junk                     what a read outside the backing store gives  *)
(*   nsbrk, sbrkfail, oob,                                                 *)
(*   path                     what the public call did so far:             *)
(*                            calls of mem_sbrk, whether one failed,       *)
(*                            whether a word outside the arena extent was  *)
(*                            written, and the branch taken                *)
(*   wild, asked, copied,                                                  *)
(*   reports                  whether mm_realloc loaded a header outside   *)
(*                            the arena, the bytes last asked of mem_sbrk, *)
(*                            the bytes last handed to memcpy, and the     *)
(*                            error lines checkheap printed                *)
(*                                                                         *)
(* The variant of src/unnamed/part_001 is modelled at the end, with its    *)
(* own specification SpecVariant.                                          *)
(***************************************************************************)
EXTENDS Integers, Sequences, FiniteSets, TLC

\* Body applied to the value of e: the local variable of a C function
Let(e, Body(_)) == CHOOSE y \in {Body(v) : v \in {e}} : TRUE

VARIABLES mem, mem_brk, mem_max_addr, heap_listp, free_listp, failedsize,
          stat, live, reqs, oom

vars == <<mem, mem_brk, mem_max_addr, heap_listp, free_listp, failedsize,
          stat, live, reqs, oom>>

(***************************************************************************)
(* Machine words.  size_t and uintptr_t arithmetic is modulo 2^WORD_BITS;  *)
(* the model keeps the 64-bit build's word size (pointers of 8 bytes)   *)
(* and scales the width of the arithmetic down to WORD_BITS bits.          *)
(***************************************************************************)
WORD_BITS == 16

Modulus == 2 ^ WORD_BITS

W(x) == x % Modulus

WSIZE == 8

DSIZE == 2 * WSIZE

NULL == 0

\* the failure value of mem_sbrk, -1 cast to a pointer
SBRK_FAIL == Modulus - 1

(***************************************************************************)
(* memlib: the arena.  A store of MaxHeap bytes starting at mem_start_brk; *)
(* mem_sbrk moves the break and fails, consuming nothing, when the request *)
(* would pass the end of the store.                                        *)
(***************************************************************************)
\* double words of room for blocks, past the 14 words mm_init takes, in the
\* three arenas the model runs in
HeapUnits == 7

WrapUnits == 5

StaleUnits == 3

InitBytes == (4 * WSIZE) + (10 * WSIZE)

MaxHeap == InitBytes + (HeapUnits * DSIZE)

WrapHeap == InitBytes + (WrapUnits * DSIZE)

StaleHeap == InitBytes + (StaleUnits * DSIZE)

\* double words of room in the arena of the boundary sizes and in the arena
\* of the three-block scenario
EdgeUnits == 5

ScenarioUnits == 12

EdgeHeap == InitBytes + (EdgeUnits * DSIZE)

ScenarioHeap == InitBytes + (ScenarioUnits * DSIZE)

\* a store too small for the first request of mm_init, and one too small for
\* its second request
ScantHeap == 2 * WSIZE

ShortHeap == (4 * WSIZE) + (2 * WSIZE)

mem_start_brk == 16

StoreWords(max) == (mem_start_brk \div WSIZE) .. ((max \div WSIZE) - 1)

InStore(h, p) == (p \div WSIZE) \in StoreWords(h.max)

InArena(h, p) == mem_start_brk <= p /\ p + WSIZE <= h.brk

mem_sbrk(h, incr) ==
    IF h.brk + incr > h.max
    THEN [h EXCEPT !.ret = SBRK_FAIL, !.nsbrk = @ + 1, !.sbrkfail = TRUE,
                   !.asked = incr]
    ELSE [h EXCEPT !.ret = h.brk, !.brk = h.brk + incr, !.nsbrk = @ + 1,
                   !.asked = incr]

(***************************************************************************)
(* The macros of mm.c.                                                     *)
(***************************************************************************)
\* (size) | (alloc), for alloc in {0, 1}
PACK(size, alloc) == IF size % 2 = 1 THEN size ELSE size + alloc

GET(h, p) == IF InStore(h, p) THEN h.mem[p \div WSIZE] ELSE h.junk

PUT(h, p, val) ==
    IF InStore(h, p)
    THEN [h EXCEPT !.mem[p \div WSIZE] = val,
                   !.oob = @ \/ ~InArena(h, p)]
    ELSE [h EXCEPT !.stat = "ub", !.oob = TRUE]

Mask(word) == word - (word % DSIZE)

GET_SIZE(h, p) == Mask(GET(h, p))

GET_ALLOC(h, p) == GET(h, p) % 2

HDRP(bp) == W(bp - WSIZE)

FTRP(h, bp) == W(bp + GET_SIZE(h, HDRP(bp)) - DSIZE)

NEXT_BLKP(h, bp) == W(bp + GET_SIZE(h, W(bp - WSIZE)))

PREV_BLKP(h, bp) == W(bp - GET_SIZE(h, W(bp - DSIZE)))

\* struct free_block: prev at offset 0, next at offset WSIZE
PrevField(bp) == bp

NextField(bp) == W(bp + WSIZE)

\* the address of free_listp[idx]
Slot(h, idx) == W(h.free_listp + idx * WSIZE)

(***************************************************************************)
(* Team helper functions.                                                  *)
(***************************************************************************)
\* find_list with strict comparisons
find_list_strict(size) ==
    IF size < 64 THEN 0
    ELSE IF size < 128 THEN 1
    ELSE IF size < 256 THEN 2
    ELSE IF size < 512 THEN 3
    ELSE IF size < 1024 THEN 4
    ELSE IF size < 2048 THEN 5
    ELSE IF size < 4096 THEN 6
    ELSE 7

find_list(size) ==
    IF size <= 64 THEN 0
    ELSE IF size <= 128 THEN 1
    ELSE IF size <= 256 THEN 2
    ELSE IF size <= 512 THEN 3
    ELSE IF size <= 1024 THEN 4
    ELSE IF size <= 2048 THEN 5
    ELSE IF size <= 4096 THEN 6
    ELSE 7

\* The two link words of a block of fewer than four words lie on its
\* footer and on the next block's header: the run is not followed past
\* such a write (stat "corrupt").
insert_free(h, asize, bp) ==
    Let(find_list(asize), LAMBDA idx :
    Let(IF asize < 2 * DSIZE THEN [h EXCEPT !.stat = "corrupt"] ELSE h, LAMBDA g :
        IF GET(g, Slot(g, idx)) = NULL
        THEN Let(PUT(g, Slot(g, idx), bp), LAMBDA a :
             Let(PUT(a, NextField(GET(a, Slot(a, idx))), NULL), LAMBDA b :
                 PUT(b, PrevField(GET(b, Slot(b, idx))), NULL)))
        ELSE Let(PUT(g, NextField(bp), GET(g, Slot(g, idx))), LAMBDA a :
             Let(PUT(a, PrevField(bp), NULL), LAMBDA b :
             Let(PUT(b, PrevField(GET(b, Slot(b, idx))), bp), LAMBDA c :
                 PUT(c, Slot(c, idx), bp))))))

remove_free(h, bp) ==
    Let(find_list(GET_SIZE(h, HDRP(bp))), LAMBDA list :
        IF GET(h, PrevField(bp)) = NULL
        THEN IF GET(h, NextField(bp)) # NULL
             THEN Let(PUT(h, PrevField(GET(h, NextField(bp))), NULL), LAMBDA a :
                      PUT(a, Slot(a, list), GET(a, NextField(bp))))
             ELSE PUT(h, Slot(h, list), NULL)
        ELSE IF GET(h, NextField(bp)) = NULL
             THEN PUT(h, NextField(GET(h, PrevField(bp))), NULL)
             ELSE Let(PUT(h, NextField(GET(h, PrevField(bp))),
                          GET(h, NextField(bp))), LAMBDA a :
                      PUT(a, PrevField(GET(a, NextField(bp))),
                          GET(a, PrevField(bp)))))

(***************************************************************************)
(* mm_init                                                                 *)
(***************************************************************************)
RECURSIVE ClearHeads(_, _)
\* for (i = 0; i < 8; i++) free_listp[i] = NULL;
ClearHeads(h, i) ==
    IF i < 8
    THEN Let(PUT(h, Slot(h, i), NULL), LAMBDA a : ClearHeads(a, i + 1))
    ELSE h

\* mm_init without the alignment padding word
mm_init_nopad(h) ==
    Let(mem_sbrk(h, 3 * WSIZE), LAMBDA s1 :
    Let([s1 EXCEPT !.heap_listp = s1.ret], LAMBDA h0 :
        IF s1.ret = SBRK_FAIL
        THEN [h0 EXCEPT !.ret = -1]
        ELSE Let(PUT(h0, h0.heap_listp, PACK(DSIZE, 1)), LAMBDA b :
             Let(PUT(b, b.heap_listp + (1 * WSIZE), PACK(DSIZE, 1)), LAMBDA c :
             Let(PUT(c, c.heap_listp + (2 * WSIZE), PACK(0, 1)), LAMBDA d :
             Let([d EXCEPT !.heap_listp = @ + (1 * WSIZE)], LAMBDA e :
             Let(mem_sbrk(e, 10 * WSIZE), LAMBDA s2 :
                 IF s2.ret = SBRK_FAIL
                 THEN [s2 EXCEPT !.ret = -1]
                 ELSE Let(s2.ret, LAMBDA startp :
                      Let(PUT(s2, HDRP(startp), PACK(10 * WSIZE, 1)), LAMBDA f :
                      Let(PUT(f, FTRP(f, startp), PACK(10 * WSIZE, 1)), LAMBDA g :
                      Let(PUT(g, NEXT_BLKP(g, startp), PACK(0, 1)), LAMBDA i :
                      Let([i EXCEPT !.free_listp = startp], LAMBDA j :
                          [ClearHeads(j, 0) EXCEPT !.ret = 0]))))))))))))

mm_init(h) ==
    Let(mem_sbrk(h, 4 * WSIZE), LAMBDA s1 :
    Let([s1 EXCEPT !.heap_listp = s1.ret], LAMBDA h0 :
        IF s1.ret = SBRK_FAIL
        THEN [h0 EXCEPT !.ret = -1]
        ELSE Let(PUT(h0, h0.heap_listp, 0), LAMBDA a :
             Let(PUT(a, a.heap_listp + (1 * WSIZE), PACK(DSIZE, 1)), LAMBDA b :
             Let(PUT(b, b.heap_listp + (2 * WSIZE), PACK(DSIZE, 1)), LAMBDA c :
             Let(PUT(c, c.heap_listp + (3 * WSIZE), PACK(0, 1)), LAMBDA d :
             Let([d EXCEPT !.heap_listp = @ + (2 * WSIZE)], LAMBDA e :
             Let(mem_sbrk(e, 10 * WSIZE), LAMBDA s2 :
                 IF s2.ret = SBRK_FAIL
                 THEN [s2 EXCEPT !.ret = -1]
                 ELSE Let(s2.ret, LAMBDA startp :
                      Let(PUT(s2, HDRP(startp), PACK(10 * WSIZE, 1)), LAMBDA f :
                      Let(PUT(f, FTRP(f, startp), PACK(10 * WSIZE, 1)), LAMBDA g :
                      Let(PUT(g, NEXT_BLKP(g, startp), PACK(0, 1)), LAMBDA i :
                      Let([i EXCEPT !.free_listp = startp], LAMBDA j :
                          [ClearHeads(j, 0) EXCEPT !.ret = 0])))))))))))))

(***************************************************************************)
(* Internal helper routines.                                               *)
(***************************************************************************)
coalesce(h, bp) ==
    Let(GET_SIZE(h, HDRP(bp)), LAMBDA size :
    Let(GET_ALLOC(h, HDRP(PREV_BLKP(h, bp))) # 0, LAMBDA prev_alloc :
    Let(GET_ALLOC(h, HDRP(NEXT_BLKP(h, bp))) # 0, LAMBDA next_alloc :
        IF prev_alloc /\ next_alloc
        THEN [insert_free(h, size, bp) EXCEPT !.ret = bp]
        ELSE IF prev_alloc /\ ~next_alloc
        THEN Let(remove_free(h, NEXT_BLKP(h, bp)), LAMBDA a :
             Let(W(size + GET_SIZE(a, HDRP(NEXT_BLKP(a, bp)))), LAMBDA sz :
             Let(PUT(a, HDRP(bp), PACK(sz, 0)), LAMBDA b :
             Let(PUT(b, FTRP(b, bp), PACK(sz, 0)), LAMBDA c :
                 [insert_free(c, sz, bp) EXCEPT !.ret = bp]))))
        ELSE IF ~prev_alloc /\ next_alloc
        THEN Let(remove_free(h, PREV_BLKP(h, bp)), LAMBDA a :
             Let(W(size + GET_SIZE(a, HDRP(PREV_BLKP(a, bp)))), LAMBDA sz :
             Let(PUT(a, FTRP(a, bp), PACK(sz, 0)), LAMBDA b :
             Let(PUT(b, HDRP(PREV_BLKP(b, bp)), PACK(sz, 0)), LAMBDA c :
             Let(PREV_BLKP(c, bp), LAMBDA nb :
                 [insert_free(c, sz, nb) EXCEPT !.ret = nb])))))
        ELSE Let(remove_free(h, NEXT_BLKP(h, bp)), LAMBDA a :
             Let(remove_free(a, PREV_BLKP(a, bp)), LAMBDA b :
             Let(W(size + GET_SIZE(b, HDRP(PREV_BLKP(b, bp)))
                        + GET_SIZE(b, FTRP(b, NEXT_BLKP(b, bp)))), LAMBDA sz :
             Let(PUT(b, HDRP(PREV_BLKP(b, bp)), PACK(sz, 0)), LAMBDA c :
             Let(PUT(c, FTRP(c, NEXT_BLKP(c, bp)), PACK(sz, 0)), LAMBDA d :
             Let(PREV_BLKP(d, bp), LAMBDA nb :
                 [insert_free(d, sz, nb) EXCEPT !.ret = nb])))))))))

\* extend_heap handing the new block to coalesce, which merges and inserts
extend_heap_coalesce(h, words) ==
    Let(IF words % 2 = 1 THEN W((words + 1) * WSIZE) ELSE W(words * WSIZE),
        LAMBDA size :
    Let(mem_sbrk(h, size), LAMBDA s :
        IF s.ret = SBRK_FAIL
        THEN [s EXCEPT !.ret = NULL]
        ELSE Let(s.ret, LAMBDA bp :
             Let(PUT(s, HDRP(bp), PACK(size, 0)), LAMBDA a :
             Let(PUT(a, FTRP(a, bp), PACK(size, 0)), LAMBDA b :
             Let(PUT(b, HDRP(NEXT_BLKP(b, bp)), PACK(0, 1)), LAMBDA c :
                 coalesce(c, bp)))))))

\* extend_heap stamping the new block's header before it asks for memory
extend_heap_stamp_first(h, words) ==
    Let(IF words % 2 = 1 THEN W((words + 1) * WSIZE) ELSE W(words * WSIZE),
        LAMBDA size :
    Let(PUT(h, HDRP(h.brk), PACK(size, 0)), LAMBDA h1 :
    Let(mem_sbrk(h1, size), LAMBDA s :
        IF s.ret = SBRK_FAIL
        THEN [s EXCEPT !.ret = NULL]
        ELSE Let(s.ret, LAMBDA bp :
             Let(PUT(s, FTRP(s, bp), PACK(size, 0)), LAMBDA b :
             Let(PUT(b, HDRP(NEXT_BLKP(b, bp)), PACK(0, 1)), LAMBDA c :
                 [c EXCEPT !.ret = bp]))))))

extend_heap(h, words) ==
    Let(IF words % 2 = 1 THEN W((words + 1) * WSIZE) ELSE W(words * WSIZE),
        LAMBDA size :
    Let(mem_sbrk(h, size), LAMBDA s :
        IF s.ret = SBRK_FAIL
        THEN [s EXCEPT !.ret = NULL]
        ELSE Let(s.ret, LAMBDA bp :
             Let(PUT(s, HDRP(bp), PACK(size, 0)), LAMBDA a :
             Let(PUT(a, FTRP(a, bp), PACK(size, 0)), LAMBDA b :
             Let(PUT(b, HDRP(NEXT_BLKP(b, bp)), PACK(0, 1)), LAMBDA c :
                 [c EXCEPT !.ret = bp]))))))

RECURSIVE find_fit_from(_, _, _, _)
\* the two nested loops of find_fit, at list idx and list element current
find_fit_from(h, asize, idx, current) ==
    IF idx >= 8 THEN NULL
    ELSE IF current = NULL
    THEN IF idx + 1 < 8
         THEN Let(GET(h, Slot(h, idx + 1)), LAMBDA first :
                  find_fit_from(h, asize, idx + 1, first))
         ELSE NULL
    ELSE IF GET_SIZE(h, HDRP(current)) >= asize THEN current
    ELSE Let(GET(h, NextField(current)), LAMBDA nxt :
             find_fit_from(h, asize, idx, nxt))

\* find_fit starting each search behind the head of the first list
find_fit_second(h, asize) ==
    Let(find_list(asize), LAMBDA idx :
    Let(GET(h, Slot(h, idx)), LAMBDA first :
        find_fit_from(h, asize, idx,
                      IF first = NULL THEN NULL ELSE GET(h, NextField(first)))))

find_fit(h, asize) ==
    Let(find_list(asize), LAMBDA idx :
    Let(GET(h, Slot(h, idx)), LAMBDA first :
        find_fit_from(h, asize, idx, first)))

\* place splitting off any remainder of a double word or more
place_split_any(h, bp, asize, remove_flag) ==
    Let(GET_SIZE(h, HDRP(bp)), LAMBDA csize :
    Let(IF remove_flag THEN remove_free(h, bp) ELSE h, LAMBDA r :
        IF W(csize - asize) >= DSIZE
        THEN Let(PUT(r, HDRP(bp), PACK(asize, 1)), LAMBDA a :
             Let(PUT(a, FTRP(a, bp), PACK(asize, 1)), LAMBDA b :
             Let(NEXT_BLKP(b, bp), LAMBDA nb :
             Let(PUT(b, HDRP(nb), PACK(W(csize - asize), 0)), LAMBDA c :
             Let(PUT(c, FTRP(c, nb), PACK(W(csize - asize), 0)), LAMBDA d :
                 insert_free(d, W(csize - asize), nb))))))
        ELSE Let(PUT(r, HDRP(bp), PACK(csize, 1)), LAMBDA a :
                 PUT(a, FTRP(a, bp), PACK(csize, 1)))))

place(h, bp, asize, remove_flag) ==
    Let(GET_SIZE(h, HDRP(bp)), LAMBDA csize :
    Let(IF remove_flag THEN remove_free(h, bp) ELSE h, LAMBDA r :
        IF W(csize - asize) >= 2 * DSIZE
        THEN Let(PUT(r, HDRP(bp), PACK(asize, 1)), LAMBDA a :
             Let(PUT(a, FTRP(a, bp), PACK(asize, 1)), LAMBDA b :
             Let(NEXT_BLKP(b, bp), LAMBDA nb :
             Let(PUT(b, HDRP(nb), PACK(W(csize - asize), 0)), LAMBDA c :
             Let(PUT(c, FTRP(c, nb), PACK(W(csize - asize), 0)), LAMBDA d :
                 insert_free(d, W(csize - asize), nb))))))
        ELSE Let(PUT(r, HDRP(bp), PACK(csize, 1)), LAMBDA a :
                 PUT(a, FTRP(a, bp), PACK(csize, 1)))))

(***************************************************************************)
(* mm_malloc, mm_free                                                      *)
(***************************************************************************)
\* the adjustment rounding the request up without the header and footer
adjust_no_overhead(size) ==
    IF size <= DSIZE
    THEN 2 * DSIZE
    ELSE W(DSIZE * (W(size + (DSIZE - 1)) \div DSIZE))

\* the adjustment rounding the quotient up
adjust_ceiling(size) ==
    IF size <= DSIZE
    THEN 2 * DSIZE
    ELSE W(DSIZE * (W(size + DSIZE + (DSIZE - 1) + (DSIZE - 1)) \div DSIZE))

\* "Adjust block size to include overhead and alignment reqs."
adjust(size) ==
    IF size <= DSIZE
    THEN 2 * DSIZE
    ELSE W(DSIZE * (W(size + DSIZE + (DSIZE - 1)) \div DSIZE))

\* the extension taking two double words more than the block needs
extend_and_place_chunk(h, asize, path) ==
    Let(extend_heap(h, W(asize + (2 * DSIZE)) \div WSIZE), LAMBDA e :
        IF e.ret = NULL
        THEN [e EXCEPT !.path = path]
        ELSE [place(e, e.ret, asize, FALSE) EXCEPT !.ret = e.ret, !.path = path])

\* the extension asking again, for a minimum block, when it is refused
extend_and_place_retry(h, asize, path) ==
    Let(extend_heap(h, asize \div WSIZE), LAMBDA e :
        IF e.ret = NULL
        THEN Let(extend_heap(e, (2 * DSIZE) \div WSIZE), LAMBDA e2 :
                 [e2 EXCEPT !.ret = NULL, !.path = path])
        ELSE [place(e, e.ret, asize, FALSE) EXCEPT !.ret = e.ret, !.path = path])

\* extend_heap(asize / WSIZE), then place(bp, asize, 0), of mm_malloc
extend_and_place(h, asize, path) ==
    Let(extend_heap(h, asize \div WSIZE), LAMBDA e :
        IF e.ret = NULL
        THEN [e EXCEPT !.path = path]
        ELSE [place(e, e.ret, asize, FALSE) EXCEPT !.ret = e.ret, !.path = path])

\* mm_malloc without the test for a request of zero bytes
mm_malloc_nozero(h, size) ==
    Let(adjust(size), LAMBDA asize :
        IF asize = h.failedsize
        THEN extend_and_place(h, asize, "sticky")
        ELSE Let(find_fit(h, asize), LAMBDA bp :
             IF bp # NULL
             THEN [place(h, bp, asize, TRUE) EXCEPT !.ret = bp, !.path = "fit"]
             ELSE extend_and_place([h EXCEPT !.failedsize = asize], asize,
                                   "extend")))

mm_malloc(h, size) ==
    IF size = 0
    THEN [h EXCEPT !.ret = NULL, !.path = "zero"]
    ELSE Let(adjust(size), LAMBDA asize :
         IF asize = h.failedsize
         THEN extend_and_place(h, asize, "sticky")
         ELSE Let(find_fit(h, asize), LAMBDA bp :
              IF bp # NULL
              THEN [place(h, bp, asize, TRUE) EXCEPT !.ret = bp, !.path = "fit"]
              ELSE extend_and_place([h EXCEPT !.failedsize = asize], asize,
                                    "extend")))

\* mm_free clearing the alloc bits without the call of coalesce
mm_free_no_coalesce(h, bp) ==
    IF bp = NULL
    THEN [h EXCEPT !.ret = NULL, !.path = "null"]
    ELSE Let(GET_SIZE(h, HDRP(bp)), LAMBDA size :
         Let(IF size = h.failedsize THEN [h EXCEPT !.failedsize = 0] ELSE h,
             LAMBDA f :
         Let(PUT(f, HDRP(bp), PACK(size, 0)), LAMBDA a :
         Let(PUT(a, FTRP(a, bp), PACK(size, 0)), LAMBDA b :
             [b EXCEPT !.ret = NULL, !.path = "free"]))))

mm_free(h, bp) ==
    IF bp = NULL
    THEN [h EXCEPT !.ret = NULL, !.path = "null"]
    ELSE Let(GET_SIZE(h, HDRP(bp)), LAMBDA size :
         Let(IF size = h.failedsize THEN [h EXCEPT !.failedsize = 0] ELSE h,
             LAMBDA f :
         Let(PUT(f, HDRP(bp), PACK(size, 0)), LAMBDA a :
         Let(PUT(a, FTRP(a, bp), PACK(size, 0)), LAMBDA b :
             [coalesce(b, bp) EXCEPT !.ret = NULL, !.path = "free"]))))

(***************************************************************************)
(* mm_realloc                                                              *)
(***************************************************************************)
RECURSIVE CopyWords(_, _, _, _)
\* copy n bytes, a word at a time, from src to dst
CopyWords(h, dst, src, n) ==
    IF n <= 0 THEN h
    ELSE Let(PUT(h, dst, GET(h, src)), LAMBDA a :
             CopyWords(a, W(dst + WSIZE), W(src + WSIZE), n - WSIZE))

\* memcpy of the C library; a null destination is undefined behaviour.
\* The number of bytes copied is recorded in copied.
memcpy(h, dst, src, n) ==
    IF dst = NULL
    THEN [h EXCEPT !.stat = "ub"]
    ELSE [CopyWords(h, dst, src, n) EXCEPT !.copied = n]

\* mm_realloc freeing the old block before it copies out of it
mm_realloc_free_first(h0, ptr, size) ==
    Let([h0 EXCEPT !.wild = @ \/ ~InArena(h0, HDRP(ptr))], LAMBDA h :
    Let(GET_SIZE(h, HDRP(ptr)), LAMBDA oldsize :
    Let(adjust(size), LAMBDA asize :
        IF size = 0
        THEN [mm_free(h, ptr) EXCEPT !.ret = NULL, !.path = "rfree"]
        ELSE IF ptr = NULL
        THEN mm_malloc(h, size)
        ELSE IF asize <= oldsize
        THEN [h EXCEPT !.ret = ptr, !.path = "inplace"]
        ELSE IF GET_SIZE(h, HDRP(NEXT_BLKP(h, ptr))) = 0
        THEN Let(extend_heap(h, W(asize - oldsize) \div WSIZE), LAMBDA e :
             Let(PUT(e, HDRP(ptr), PACK(asize, 1)), LAMBDA a :
             Let(PUT(a, FTRP(a, ptr), PACK(asize, 1)), LAMBDA b :
                 [b EXCEPT !.ret = ptr, !.path = "tail"])))
        ELSE Let(mm_free(h, ptr), LAMBDA f :
             Let(mm_malloc(f, size), LAMBDA m :
             Let(memcpy(m, m.ret, ptr, oldsize), LAMBDA c :
                 [c EXCEPT !.ret = m.ret, !.path = "move"]))))))

\* mm_realloc stamping the smaller size on a block it keeps in place
mm_realloc_shrink_tags(h0, ptr, size) ==
    Let([h0 EXCEPT !.wild = @ \/ ~InArena(h0, HDRP(ptr))], LAMBDA h :
    Let(GET_SIZE(h, HDRP(ptr)), LAMBDA oldsize :
    Let(adjust(size), LAMBDA asize :
        IF size = 0
        THEN [mm_free(h, ptr) EXCEPT !.ret = NULL, !.path = "rfree"]
        ELSE IF ptr = NULL
        THEN mm_malloc(h, size)
        ELSE IF asize <= oldsize
        THEN Let(PUT(h, HDRP(ptr), PACK(asize, 1)), LAMBDA a :
             Let(PUT(a, FTRP(a, ptr), PACK(asize, 1)), LAMBDA b :
                 [b EXCEPT !.ret = ptr, !.path = "inplace"]))
        ELSE IF GET_SIZE(h, HDRP(NEXT_BLKP(h, ptr))) = 0
        THEN Let(extend_heap(h, W(asize - oldsize) \div WSIZE), LAMBDA e :
             Let(PUT(e, HDRP(ptr), PACK(asize, 1)), LAMBDA a :
             Let(PUT(a, FTRP(a, ptr), PACK(asize, 1)), LAMBDA b :
                 [b EXCEPT !.ret = ptr, !.path = "tail"])))
        ELSE Let(mm_malloc(h, size), LAMBDA m :
             Let(memcpy(m, m.ret, ptr, oldsize), LAMBDA c :
                 IF c.stat = "ub"
                 THEN [c EXCEPT !.ret = m.ret, !.path = "move"]
                 ELSE [mm_free(c, ptr) EXCEPT !.ret = m.ret, !.path = "move"])))))

\* mm_realloc leaving the tags extend_heap wrote when it grows the last block
mm_realloc_tail_unstamped(h0, ptr, size) ==
    Let([h0 EXCEPT !.wild = @ \/ ~InArena(h0, HDRP(ptr))], LAMBDA h :
    Let(GET_SIZE(h, HDRP(ptr)), LAMBDA oldsize :
    Let(adjust(size), LAMBDA asize :
        IF size = 0
        THEN [mm_free(h, ptr) EXCEPT !.ret = NULL, !.path = "rfree"]
        ELSE IF ptr = NULL
        THEN mm_malloc(h, size)
        ELSE IF asize <= oldsize
        THEN [h EXCEPT !.ret = ptr, !.path = "inplace"]
        ELSE IF GET_SIZE(h, HDRP(NEXT_BLKP(h, ptr))) = 0
        THEN Let(extend_heap(h, W(asize - oldsize) \div WSIZE), LAMBDA e :
                 [e EXCEPT !.ret = ptr, !.path = "tail"])
        ELSE Let(mm_malloc(h, size), LAMBDA m :
             Let(memcpy(m, m.ret, ptr, oldsize), LAMBDA c :
                 IF c.stat = "ub"
                 THEN [c EXCEPT !.ret = m.ret, !.path = "move"]
                 ELSE [mm_free(c, ptr) EXCEPT !.ret = m.ret, !.path = "move"])))))

\* mm_realloc without the branch for a new size of zero
mm_realloc_nozero(h0, ptr, size) ==
    Let([h0 EXCEPT !.wild = @ \/ ~InArena(h0, HDRP(ptr))], LAMBDA h :
    Let(GET_SIZE(h, HDRP(ptr)), LAMBDA oldsize :
    Let(adjust(size), LAMBDA asize :
        IF ptr = NULL
        THEN mm_malloc(h, size)
        ELSE IF asize <= oldsize
        THEN [h EXCEPT !.ret = ptr, !.path = "inplace"]
        ELSE IF GET_SIZE(h, HDRP(NEXT_BLKP(h, ptr))) = 0
        THEN Let(extend_heap(h, W(asize - oldsize) \div WSIZE), LAMBDA e :
             Let(PUT(e, HDRP(ptr), PACK(asize, 1)), LAMBDA a :
             Let(PUT(a, FTRP(a, ptr), PACK(asize, 1)), LAMBDA b :
                 [b EXCEPT !.ret = ptr, !.path = "tail"])))
        ELSE Let(mm_malloc(h, size), LAMBDA m :
             Let(memcpy(m, m.ret, ptr, oldsize), LAMBDA c :
                 IF c.stat = "ub"
                 THEN [c EXCEPT !.ret = m.ret, !.path = "move"]
                 ELSE [mm_free(c, ptr) EXCEPT !.ret = m.ret, !.path = "move"])))))

\* oldsize is loaded from the header of ptr before ptr is compared with
\* NULL: the load of a header outside the arena is recorded in wild.
mm_realloc(h0, ptr, size) ==
    Let([h0 EXCEPT !.wild = @ \/ ~InArena(h0, HDRP(ptr))], LAMBDA h :
    Let(GET_SIZE(h, HDRP(ptr)), LAMBDA oldsize :
    Let(adjust(size), LAMBDA asize :
        IF size = 0
        THEN [mm_free(h, ptr) EXCEPT !.ret = NULL, !.path = "rfree"]
        ELSE IF ptr = NULL
        THEN mm_malloc(h, size)
        ELSE IF asize <= oldsize
        THEN [h EXCEPT !.ret = ptr, !.path = "inplace"]
        ELSE IF GET_SIZE(h, HDRP(NEXT_BLKP(h, ptr))) = 0
        THEN Let(extend_heap(h, W(asize - oldsize) \div WSIZE), LAMBDA e :
             Let(PUT(e, HDRP(ptr), PACK(asize, 1)), LAMBDA a :
             Let(PUT(a, FTRP(a, ptr), PACK(asize, 1)), LAMBDA b :
                 [b EXCEPT !.ret = ptr, !.path = "tail"])))
        ELSE Let(mm_malloc(h, size), LAMBDA m :
             Let(memcpy(m, m.ret, ptr, oldsize), LAMBDA c :
                 IF c.stat = "ub"
                 THEN [c EXCEPT !.ret = m.ret, !.path = "move"]
                 ELSE [mm_free(c, ptr) EXCEPT !.ret = m.ret, !.path = "move"])))))

(***************************************************************************)
(* The heap consistency checker.  The lines it prints for an error are     *)
(* collected in reports; the listing printed when verbose is set is not    *)
(* modelled (printblock runs checkheap(false) again, which reports the     *)
(* same errors).                                                           *)
(***************************************************************************)
checkblock(h, bp) ==
    Let(IF bp % WSIZE # 0
        THEN [h EXCEPT !.reports = @ \cup {"not doubleword aligned"}]
        ELSE h, LAMBDA a :
        IF GET(a, HDRP(bp)) # GET(a, FTRP(a, bp))
        THEN [a EXCEPT !.reports = @ \cup {"header does not match footer"}]
        ELSE a)

RECURSIVE checkheap_from(_, _, _)
\* the loop of checkheap at block bp, and the epilogue test behind it; a
\* walk of more blocks than the store has words does not end (path "loop")
checkheap_from(h, bp, fuel) ==
    IF GET_SIZE(h, HDRP(bp)) > 0
    THEN IF fuel = 0
         THEN [h EXCEPT !.ret = bp, !.path = "loop"]
         ELSE Let(checkblock(h, bp), LAMBDA a :
                  checkheap_from(a, NEXT_BLKP(a, bp), fuel - 1))
    ELSE Let(IF GET_SIZE(h, HDRP(bp)) # 0 \/ GET_ALLOC(h, HDRP(bp)) = 0
             THEN [h EXCEPT !.reports = @ \cup {"Bad epilogue header"}]
             ELSE h, LAMBDA a :
             [a EXCEPT !.ret = bp, !.path = "end"])

checkheap(h, verbose) ==
    Let(IF GET_SIZE(h, HDRP(h.heap_listp)) # WSIZE
           \/ GET_ALLOC(h, HDRP(h.heap_listp)) = 0
        THEN [h EXCEPT !.reports = @ \cup {"Bad prologue header"}]
        ELSE h, LAMBDA a :
    Let(checkblock(a, a.heap_listp), LAMBDA b :
        checkheap_from(b, b.heap_listp, (b.max \div WSIZE) + 1)))

(***************************************************************************)
(* The state machine.                                                      *)
(***************************************************************************)
\* request sizes of the caller: small ones, and one for which
\* size + DSIZE + (DSIZE - 1) passes 2^WORD_BITS
Sizes == {1, 24}

WrapSizes == {1, Modulus - 1}

\* the sizes around DSIZE, and the size of the three-block scenario
BoundarySizes == {DSIZE - 1, DSIZE, DSIZE + 1}

ScenarioSizes == {40}

\* What the words of the store hold before the allocator writes them:
\* zero pages, or what an earlier run left (an allocated and a free tag).
\* (the word at an even index, the word at an odd index)
FreshImage == <<0, 0>>

StaleImages == {<<33, 48>>, <<48, 33>>}

\* The arenas the model runs in: the store's size, the sizes the caller
\* asks for, and the store's first contents.
Configs ==
    {[max |-> mem_start_brk + MaxHeap, sizes |-> Sizes, image |-> FreshImage]}
    \cup {[max |-> mem_start_brk + WrapHeap, sizes |-> WrapSizes, image |-> FreshImage]}
    \cup {[max |-> mem_start_brk + StaleHeap, sizes |-> Sizes, image |-> g] :
              g \in StaleImages}
    \cup {[max |-> mem_start_brk + EdgeHeap, sizes |-> BoundarySizes, image |-> FreshImage]}
    \cup {[max |-> mem_start_brk + ScenarioHeap, sizes |-> ScenarioSizes, image |-> FreshImage]}
    \cup {[max |-> mem_start_brk + m, sizes |-> Sizes, image |-> FreshImage] :
              m \in {ScantHeap, ShortHeap}}

\* the heap record of the current state, at the start of a public call
H == [mem |-> mem, brk |-> mem_brk, max |-> mem_max_addr,
      heap_listp |-> heap_listp, free_listp |-> free_listp,
      failedsize |-> failedsize, stat |-> "run", ret |-> NULL, junk |-> 0,
      nsbrk |-> 0, sbrkfail |-> FALSE, oob |-> FALSE, wild |-> FALSE,
      asked |-> 0, copied |-> 0, reports |-> {}, path |-> "none"]

Commit(r) ==
    /\ mem' = r.mem
    /\ mem_brk' = r.brk
    /\ heap_listp' = r.heap_listp
    /\ free_listp' = r.free_listp
    /\ failedsize' = r.failedsize
    /\ oom' = (oom \/ r.sbrkfail)
    /\ UNCHANGED <<mem_max_addr, reqs>>

Init ==
    /\ \E c \in Configs :
          /\ mem = [i \in StoreWords(c.max) |->
                       IF i % 2 = 0 THEN c.image[1] ELSE c.image[2]]
          /\ mem_max_addr = c.max
          /\ reqs = c.sizes
    /\ mem_brk = mem_start_brk
    /\ heap_listp = NULL
    /\ free_listp = NULL
    /\ failedsize = 0
    /\ stat = "start"
    /\ live = {}
    /\ oom = FALSE

MmInit ==
    /\ stat = "start"
    /\ \E r \in {mm_init(H)} :
           /\ Commit(r)
           /\ stat' = IF r.stat # "run" THEN r.stat
                      ELSE IF r.ret = 0 THEN "run" ELSE "initfail"
    /\ UNCHANGED live

Malloc ==
    /\ stat = "run"
    /\ \E size \in reqs \cup {0} :
          \E r \in {mm_malloc(H, size)} :
              /\ Commit(r)
              /\ stat' = r.stat
              /\ live' = IF r.ret # NULL THEN live \cup {r.ret} ELSE live

Free ==
    /\ stat = "run"
    /\ \E p \in live \cup {NULL} :
          \E r \in {mm_free(H, p)} :
              /\ Commit(r)
              /\ stat' = r.stat
              /\ live' = live \ {p}

\* A load outside the arena either faults (the run ends, stat "ub") or
\* goes unnoticed and the call carries on.
Realloc ==
    /\ stat = "run"
    /\ \E p \in live \cup {NULL}, size \in reqs \cup {0} :
          \E r \in {mm_realloc(H, p, size)} :
              \E fault \in (IF r.wild THEN BOOLEAN ELSE {FALSE}) :
                  IF fault
                  THEN /\ stat' = "ub"
                       /\ UNCHANGED <<mem, mem_brk, mem_max_addr, heap_listp,
                                      free_listp, failedsize, live, reqs, oom>>
                  ELSE /\ Commit(r)
                       /\ stat' = r.stat
                       /\ live' = IF size = 0 THEN live \ {p}
                                  ELSE IF r.ret = NULL THEN live
                                  ELSE (live \ {p}) \cup {r.ret}

Next == MmInit \/ Malloc \/ Free \/ Realloc

Spec == Init /\ [][Next]_vars

(***************************************************************************)
(* Reading a heap: the tiling walk and the free lists.                     *)
(***************************************************************************)
\* more steps than any walk over the store can take
Fuel(h) == (h.max - mem_start_brk) \div WSIZE

RECURSIVE WalkFrom(_, _, _)
\* the block pointers visited from bp by next_block, up to a header of size 0
WalkFrom(h, bp, fuel) ==
    IF fuel = 0 \/ ~InStore(h, HDRP(bp)) \/ GET_SIZE(h, HDRP(bp)) = 0
    THEN <<>>
    ELSE <<bp>> \o WalkFrom(h, NEXT_BLKP(h, bp), fuel - 1)

\* the blocks of the heap, from the prologue
Blocks(h) == WalkFrom(h, h.heap_listp, Fuel(h))

\* where the walk over bs stopped
EndOf(h, bs) ==
    IF bs = <<>> THEN h.heap_listp ELSE NEXT_BLKP(h, bs[Len(bs)])

RECURSIVE SumSizes(_, _, _)
SumSizes(h, bs, k) ==
    IF k > Len(bs) THEN 0
    ELSE GET_SIZE(h, HDRP(bs[k])) + SumSizes(h, bs, k + 1)

RECURSIVE ListFrom(_, _, _)
\* the blocks on a free list from element p, following the next links
ListFrom(h, p, fuel) ==
    IF fuel = 0 \/ p = NULL \/ ~InStore(h, p) THEN <<>>
    ELSE <<p>> \o ListFrom(h, GET(h, NextField(p)), fuel - 1)

FreeList(h, idx) == ListFrom(h, GET(h, Slot(h, idx)), Fuel(h))

\* how many times block b is met on list idx
Count(h, idx, b) ==
    Cardinality({k \in DOMAIN FreeList(h, idx) : FreeList(h, idx)[k] = b})

RECURSIVE CountAll(_, _, _)
\* how many times block b is met on lists idx .. 7
CountAll(h, b, idx) ==
    IF idx >= 8 THEN 0 ELSE Count(h, idx, b) + CountAll(h, b, idx + 1)

\* the word addresses of the payload of block p, [p, p + size - DSIZE)
Payload(h, p) ==
    {a \in p .. (p + GET_SIZE(h, HDRP(p)) - DSIZE - 1) : a % WSIZE = 0}

\* the word addresses of the headers and footers of the blocks bs and of
\* the header the walk stopped on
Tags(h, bs) ==
    {HDRP(bs[k]) : k \in DOMAIN bs} \cup {FTRP(h, bs[k]) : k \in DOMAIN bs}
    \cup {HDRP(EndOf(h, bs))}

\* the word addresses of the free-list head array
HeadArray(h) == {Slot(h, idx) : idx \in 0 .. 7}

\* mm_init has returned 0
Served == stat \notin {"start", "initfail"}

\* no arena extension was refused so far
AllGranted == ~oom

(***************************************************************************)
(* The claims.                                                             *)
(***************************************************************************)
\* C1: with the arena base aligned to DSIZE, every non-null pointer that
\* mm_malloc or mm_realloc returned and the caller still holds is a
\* multiple of DSIZE.
C1_PointersAligned ==
    (Served /\ mem_start_brk % DSIZE = 0) => \A p \in live : p % DSIZE = 0

\* C1, witness: the caller holds three blocks, one of them placed in a
\* block found on a free list after a split or a merge moved its start.
C1_Witness ==
    /\ stat = "run"
    /\ Cardinality(live) >= 3
    /\ \E idx \in 0 .. 7 : GET(H, Slot(H, idx)) # NULL

\* C2: the payload ranges of the pointers the caller holds are pairwise
\* disjoint, lie inside the arena, and overlap neither the head array nor
\* any block header or footer (every arena extension having succeeded).
PayloadsApart(h, bs) ==
    /\ \A p \in live :
          /\ mem_start_brk <= p
          /\ p <= p + GET_SIZE(h, HDRP(p)) - DSIZE
          /\ p + GET_SIZE(h, HDRP(p)) - DSIZE <= h.brk
          /\ Payload(h, p) \cap HeadArray(h) = {}
          /\ Payload(h, p) \cap Tags(h, bs) = {}
    /\ \A p \in live, q \in live : p # q => Payload(h, p) \cap Payload(h, q) = {}

C2_PayloadsApart ==
    (Served /\ AllGranted) => PayloadsApart(H, Blocks(H))

\* C3: a successful mm_malloc(s), s > 0, returns a block whose payload
\* capacity, block size minus DSIZE, is at least s.
CapacityCovers(r, s) ==
    r.ret # NULL => GET_SIZE(r, HDRP(r.ret)) - DSIZE >= s

C3_CapacityCoversRequest ==
    stat = "run" => \A s \in reqs : CapacityCovers(mm_malloc(H, s), s)

\* C4: the walk from the prologue payload ends exactly on the epilogue
\* header (0, 1) in the last word of the arena, and the sizes visited sum
\* to the arena extent minus the pad word and the epilogue word.
Tiling(h, bs) ==
    /\ HDRP(EndOf(h, bs)) = h.brk - WSIZE
    /\ GET(h, HDRP(EndOf(h, bs))) = PACK(0, 1)
    /\ SumSizes(h, bs, 1) = (h.brk - mem_start_brk) - (2 * WSIZE)

C4_Tiling ==
    (Served /\ AllGranted) => Tiling(H, Blocks(H))

\* C5: every block reached by the tiling walk has a footer word equal to
\* its header word.
HeaderIsFooter(h, bs) ==
    \A k \in DOMAIN bs : GET(h, HDRP(bs[k])) = GET(h, FTRP(h, bs[k]))

C5_HeaderIsFooter ==
    (Served /\ AllGranted) => HeaderIsFooter(H, Blocks(H))

\* C6: a block of the tiling is reachable from a free-list head iff its
\* alloc bit is 0, each free block is reachable exactly once over the 8
\* lists, and it is on list find_list(its size).
ListsMatch(h, bs) ==
    \A k \in DOMAIN bs :
        /\ (CountAll(h, bs[k], 0) > 0) <=> (GET_ALLOC(h, HDRP(bs[k])) = 0)
        /\ GET_ALLOC(h, HDRP(bs[k])) = 0 =>
              /\ CountAll(h, bs[k], 0) = 1
              /\ Count(h, find_list(GET_SIZE(h, HDRP(bs[k]))), bs[k]) = 1

C6_ListsMatch ==
    (Served /\ AllGranted) => ListsMatch(H, Blocks(H))

\* C7: no block with alloc bit 0 is immediately followed in the tiling by
\* another block with alloc bit 0.
NoAdjacentFree(h, bs) ==
    \A k \in DOMAIN bs :
        (k < Len(bs) /\ GET_ALLOC(h, HDRP(bs[k])) = 0)
            => GET_ALLOC(h, HDRP(bs[k + 1])) # 0

C7_NoAdjacentFree ==
    (Served /\ AllGranted) => NoAdjacentFree(H, Blocks(H))

\* C8: a successful q = mm_realloc(p, s), s > 0, on a held pointer p leaves
\* the first min(n, s) bytes at q equal to the bytes that were at p, n
\* being the payload capacity of p's block before the call.
Min(a, b) == IF a < b THEN a ELSE b

\* the words that hold the first n bytes of a payload, as offsets
WordsOf(n) == {k * WSIZE : k \in 0 .. (((n + WSIZE - 1) \div WSIZE) - 1)}

Preserved(h, p, s, r) ==
    (r.ret # NULL /\ ~r.sbrkfail) =>
        \A off \in WordsOf(Min(GET_SIZE(h, HDRP(p)) - DSIZE, s)) :
            GET(r, r.ret + off) = GET(h, p + off)

C8_ReallocPreserves ==
    stat = "run" =>
        \A p \in live, s \in reqs : Preserved(H, p, s, mm_realloc(H, p, s))

\* C8, witness: a held block is about to be relocated into a block whose
\* words differ from its own, so the copy decides what the caller reads.
Relocates(h, p, s, r) ==
    /\ r.path = "move"
    /\ r.ret # NULL
    /\ r.stat = "run"
    /\ \E off \in WordsOf(Min(GET_SIZE(h, HDRP(p)) - DSIZE, s)) :
          GET(h, r.ret + off) # GET(h, p + off)

C8_Witness ==
    /\ stat = "run"
    /\ \E p \in live, s \in reqs : Relocates(H, p, s, mm_realloc(H, p, s))

\* C9: when mem_sbrk refuses the extension mm_malloc asks for, mm_malloc
\* returns NULL and every heap word, every free-list head and the arena
\* extent are as before the call.
Untouched(h, r) ==
    /\ r.mem = h.mem
    /\ r.brk = h.brk
    /\ r.heap_listp = h.heap_listp
    /\ r.free_listp = h.free_listp
    /\ ~r.oob

RefusedMallocIsNoOp(h, r) ==
    r.sbrkfail => (r.ret = NULL /\ Untouched(h, r))

C9_RefusedMallocIsNoOp ==
    stat = "run" => \A s \in reqs : RefusedMallocIsNoOp(H, mm_malloc(H, s))

\* C9, witness: the arena is about to refuse mm_malloc on the sticky-miss
\* path for one request and on the search-then-extend path for another,
\* while the caller holds blocks.
RefusedOn(r, path) == r.sbrkfail /\ r.path = path /\ r.nsbrk = 1

C9_Witness ==
    /\ stat = "run"
    /\ live # {}
    /\ \E s \in reqs : RefusedOn(mm_malloc(H, s), "sticky")
    /\ \E s \in reqs : RefusedOn(mm_malloc(H, s), "extend")

\* C10: when mm_realloc(p, s) takes the grow-at-tail branch and the arena
\* refuses the extension, it returns NULL and leaves the heap as it was.
RefusedTailIsNoOp(h, r) ==
    (r.path = "tail" /\ r.sbrkfail) =>
        (r.ret = NULL /\ Untouched(h, r) /\ r.stat = "run")

C10_RefusedTailReallocIsNoOp ==
    stat = "run" =>
        \A p \in live, s \in reqs : RefusedTailIsNoOp(H, mm_realloc(H, p, s))

\* C11: when mm_realloc(p, s) takes the relocate branch and the inner
\* mm_malloc returns NULL, mm_realloc returns NULL, p's block keeps its
\* header, footer and payload, and no address outside the arena is read
\* or written.
RefusedMoveIsNoOp(h, r) ==
    (r.path = "move" /\ r.sbrkfail) =>
        (r.ret = NULL /\ Untouched(h, r) /\ ~r.wild /\ r.stat = "run")

C11_RefusedMoveIsNoOp ==
    stat = "run" =>
        \A p \in live, s \in reqs : RefusedMoveIsNoOp(H, mm_realloc(H, p, s))

\* C12: right after mm_init returns 0 the prologue header and footer hold
\* (DSIZE, 1), the head array is an allocated block with header equal to
\* footer, all 8 heads are null, and the last word inside the arena is the
\* epilogue header (0, 1).
InitLayout(r) ==
    /\ GET(r, HDRP(r.heap_listp)) = PACK(DSIZE, 1)
    /\ GET(r, FTRP(r, r.heap_listp)) = PACK(DSIZE, 1)
    /\ GET_ALLOC(r, HDRP(r.free_listp)) = 1
    /\ GET(r, FTRP(r, r.free_listp)) = GET(r, HDRP(r.free_listp))
    /\ \A idx \in 0 .. 7 : GET(r, Slot(r, idx)) = NULL
    /\ GET(r, r.brk - WSIZE) = PACK(0, 1)

InitLaysOut(r) == r.ret = 0 => InitLayout(r)

C12_InitLayout == stat = "start" => InitLaysOut(mm_init(H))

\* C13: if either arena request of mm_init fails, mm_init returns -1 and
\* the arena extent, the heap words and the globals heap_listp and
\* free_listp are as before the call.
FailedInitIsNoOp(h, r) ==
    r.sbrkfail => (r.ret = -1 /\ Untouched(h, r))

C13_FailedInitIsNoOp == stat = "start" => FailedInitIsNoOp(H, mm_init(H))

\* C14: in any reachable state mm_malloc(0) returns NULL and mm_free(NULL)
\* returns, and each leaves every heap word, every free-list head, the
\* arena extent and failedsize unchanged.
NoOp(h, r) ==
    /\ r.ret = NULL
    /\ Untouched(h, r)
    /\ r.failedsize = h.failedsize
    /\ r.nsbrk = 0
    /\ r.stat = "run"

C14_NullCallsAreNoOps ==
    NoOp(H, mm_malloc(H, 0)) /\ NoOp(H, mm_free(H, NULL))

\* C14, witness: the caller holds blocks, a free block is on a list and
\* failedsize is set, so there is state that a call could disturb.
C14_Witness ==
    /\ stat = "run"
    /\ live # {}
    /\ failedsize # 0
    /\ \E idx \in 0 .. 7 : GET(H, Slot(H, idx)) # NULL
    /\ NoOp(H, mm_malloc(H, 0))

\* C15: for every s > 0, mm_realloc(NULL, s) returns the pointer and
\* produces the heap that mm_malloc(s) does, and reads or writes no
\* address outside the arena.
SameOutcome(r, m) ==
    /\ r.ret = m.ret
    /\ r.mem = m.mem
    /\ r.brk = m.brk
    /\ r.heap_listp = m.heap_listp
    /\ r.free_listp = m.free_listp
    /\ r.failedsize = m.failedsize

ReallocNullIsMalloc(r, m) == SameOutcome(r, m) /\ ~r.wild /\ ~r.oob

C15_ReallocNullIsMalloc ==
    stat = "run" =>
        \A s \in reqs :
            ReallocNullIsMalloc(mm_realloc(H, NULL, s), mm_malloc(H, s))

\* C16: for every held pointer p, mm_realloc(p, 0) returns NULL and leaves
\* the heap, the free lists and failedsize that mm_free(p) leaves.
ReallocZeroIsFree(r, f) == r.ret = NULL /\ SameOutcome(r, f) /\ ~r.wild

C16_ReallocZeroIsFree ==
    stat = "run" =>
        \A p \in live : ReallocZeroIsFree(mm_realloc(H, p, 0), mm_free(H, p))

\* C16, witness: a held block whose size is failedsize and whose successor
\* is free, so that freeing it resets failedsize and merges two blocks.
C16_Witness ==
    /\ stat = "run"
    /\ \E p \in live :
          /\ GET_SIZE(H, HDRP(p)) = failedsize
          /\ GET_ALLOC(H, HDRP(NEXT_BLKP(H, p))) = 0
          /\ GET_SIZE(H, HDRP(NEXT_BLKP(H, p))) >= 2 * DSIZE
          /\ mm_realloc(H, p, 0).mem # mem

\* C17: after p = mm_malloc(s) succeeds and mm_free(p), the next
\* mm_malloc(s) succeeds without a request to the arena, whatever
\* failedsize was and wherever the first block came from; and in
\* malloc(s), malloc(s), free(first), malloc(s) the third call returns the
\* freed block.
NoArenaCall(before, m) == m.ret # NULL /\ m.nsbrk = before.nsbrk

ReusedAfterFree(m1, s) ==
    m1.ret # NULL => NoArenaCall(m1, mm_malloc(mm_free(m1, m1.ret), s))

ThirdIsFirst(m1, m2, s) ==
    (m1.ret # NULL /\ m2.ret # NULL) =>
        /\ NoArenaCall(m2, mm_malloc(mm_free(m2, m1.ret), s))
        /\ mm_malloc(mm_free(m2, m1.ret), s).ret = m1.ret

SecondThenThird(m1, s) == ThirdIsFirst(m1, mm_malloc(m1, s), s)

C17_FreedBlockIsReused ==
    stat = "run" =>
        \A s \in reqs :
            /\ ReusedAfterFree(mm_malloc(H, s), s)
            /\ SecondThenThird(mm_malloc(H, s), s)

\* mm_init has returned 0 and the heap has not grown since
JustInitialised == stat = "run" /\ mem_brk = mem_start_brk + InitBytes

\* the blocks of the walk bs whose alloc bit is 0
FreeBlocks(h, bs) ==
    {bs[k] : k \in {j \in DOMAIN bs : GET_ALLOC(h, HDRP(bs[j])) = 0}}

\* C18 as stated: mm_malloc with each of the sizes 1, DSIZE - 1, DSIZE and
\* DSIZE + 1 produces a block of 2 * DSIZE bytes with a DSIZE-aligned
\* payload (on the heap mm_init leaves).
MinimumBlock(r) ==
    /\ r.ret # NULL
    /\ r.ret % DSIZE = 0
    /\ GET_SIZE(r, HDRP(r.ret)) = 2 * DSIZE

C18_MinimumBlocks ==
    JustInitialised =>
        \A s \in {1} \cup BoundarySizes : MinimumBlock(mm_malloc(H, s))

\* C18, amended: with sizes 1, DSIZE - 1 and DSIZE mm_malloc asks for
\* 2 * DSIZE bytes, with DSIZE + 1 for 3 * DSIZE bytes; the block it returns
\* has a DSIZE-aligned payload, at least the bytes asked for and fewer than
\* 2 * DSIZE more, and exactly the bytes asked for when it comes from an
\* extension of the heap.
Want(s) == IF s <= DSIZE THEN 2 * DSIZE ELSE 3 * DSIZE

BoundaryBlock(r, s) ==
    r.ret # NULL =>
        /\ r.ret % DSIZE = 0
        /\ GET_SIZE(r, HDRP(r.ret)) >= Want(s)
        /\ GET_SIZE(r, HDRP(r.ret)) < Want(s) + (2 * DSIZE)
        /\ r.path # "fit" => GET_SIZE(r, HDRP(r.ret)) = Want(s)

C18_BoundaryBlocks ==
    stat = "run" =>
        \A s \in {1} \cup BoundarySizes : BoundaryBlock(mm_malloc(H, s), s)

\* C18, witness: the caller asked for the sizes around DSIZE and holds a
\* block of 2 * DSIZE and a block of 3 * DSIZE bytes.
C18_Witness ==
    /\ stat = "run"
    /\ reqs = BoundarySizes
    /\ \E p \in live : GET_SIZE(H, HDRP(p)) = 2 * DSIZE
    /\ \E p \in live : GET_SIZE(H, HDRP(p)) = 3 * DSIZE

\* C19 as stated: after mm_init and mm_malloc(1) the block has 32 bytes and
\* a 16-aligned payload, and the heap holds exactly one free block, the
\* rest of the extension, at the tail just before the epilogue.
OneFreeAtTail(r, bs) ==
    /\ MinimumBlock(r)
    /\ Cardinality(FreeBlocks(r, bs)) = 1
    /\ bs # <<>>
    /\ bs[Len(bs)] \in FreeBlocks(r, bs)
    /\ GET(r, HDRP(EndOf(r, bs))) = PACK(0, 1)

FirstLeavesFree(r) == OneFreeAtTail(r, Blocks(r))

C19_FirstMallocLeavesFreeTail == JustInitialised => FirstLeavesFree(mm_malloc(H, 1))

\* C19, amended: after mm_init and mm_malloc(1) the block has 32 bytes and
\* a 16-aligned payload, the arena has grown by exactly 32 bytes, the heap
\* holds no free block, and the returned block is the last block, just
\* before the epilogue.
NoFreeAtTail(h, r, bs) ==
    /\ MinimumBlock(r)
    /\ r.brk = h.brk + (2 * DSIZE)
    /\ FreeBlocks(r, bs) = {}
    /\ \A idx \in 0 .. 7 : GET(r, Slot(r, idx)) = NULL
    /\ bs # <<>>
    /\ bs[Len(bs)] = r.ret
    /\ HDRP(EndOf(r, bs)) = r.brk - WSIZE
    /\ GET(r, HDRP(EndOf(r, bs))) = PACK(0, 1)

FirstFillsExtension(h, r) == NoFreeAtTail(h, r, Blocks(r))

C19_FirstMallocFillsExtension ==
    JustInitialised => FirstFillsExtension(H, mm_malloc(H, 1))

\* C19, witness: the state mm_init and mm_malloc(1) lead to.
C19_Witness ==
    /\ stat = "run"
    /\ 1 \in reqs
    /\ mem_brk = mem_start_brk + InitBytes + (2 * DSIZE)
    /\ Cardinality(live) = 1
    /\ failedsize = 2 * DSIZE
    /\ \A p \in live : Blocks(H)[Len(Blocks(H))] = p

\* C20: after mm_init, three calls mm_malloc(40) and mm_free of the middle
\* pointer, the heap holds exactly one free block, of the stated size, on
\* list 0, both its neighbours are allocated and the tiling is intact.
MiddleFreed(a, b, c, f, size) ==
    (a.ret # NULL /\ b.ret # NULL /\ c.ret # NULL) =>
        /\ FreeBlocks(f, Blocks(f)) = {b.ret}
        /\ GET_SIZE(f, HDRP(b.ret)) = size
        /\ Count(f, 0, b.ret) = 1
        /\ CountAll(f, b.ret, 0) = 1
        /\ NEXT_BLKP(f, a.ret) = b.ret
        /\ NEXT_BLKP(f, b.ret) = c.ret
        /\ GET_ALLOC(f, HDRP(a.ret)) = 1
        /\ GET_ALLOC(f, HDRP(c.ret)) = 1
        /\ Tiling(f, Blocks(f))
        /\ HeaderIsFooter(f, Blocks(f))

AfterThree(a, b, c, size) == MiddleFreed(a, b, c, mm_free(c, b.ret), size)

AfterTwo(a, b, size) == AfterThree(a, b, mm_malloc(b, 40), size)

AfterOne(a, size) == AfterTwo(a, mm_malloc(a, 40), size)

\* C20 as stated: the free block has 48 bytes.
C20_MiddleFree48 == JustInitialised => AfterOne(mm_malloc(H, 40), 48)

\* C20, amended: the free block has 64 bytes (40 bytes of payload and 16 of
\* header and footer, rounded up to a multiple of 16).
C20_MiddleFree64 == JustInitialised => AfterOne(mm_malloc(H, 40), 64)

\* C20, witness: the state the scenario leads to, two held blocks around
\* the only free block.
C20_Witness ==
    /\ stat = "run"
    /\ reqs = ScenarioSizes
    /\ Cardinality(live) = 2
    /\ mem_brk = mem_start_brk + InitBytes + (3 * 64)
    /\ \E p \in live :
          /\ FreeBlocks(H, Blocks(H)) = {NEXT_BLKP(H, p)}
          /\ NEXT_BLKP(H, NEXT_BLKP(H, p)) \in live

\* C21: for a held pointer p and s > 0 with adjust(s) <= the size of p's
\* block, mm_realloc(p, s) returns p and changes no heap word, no list
\* head, not the arena extent and not failedsize.
KeptInPlace(h, p, s, r) ==
    adjust(s) <= GET_SIZE(h, HDRP(p)) =>
        /\ r.ret = p
        /\ Untouched(h, r)
        /\ r.failedsize = h.failedsize
        /\ r.nsbrk = 0
        /\ ~r.wild
        /\ r.stat = "run"

C21_ShrinkInPlace ==
    stat = "run" =>
        \A p \in live, s \in reqs : KeptInPlace(H, p, s, mm_realloc(H, p, s))

\* C21, witness: a held block larger than the block a request asks for.
C21_Witness ==
    /\ stat = "run"
    /\ \E p \in live, s \in reqs :
          /\ adjust(s) < GET_SIZE(H, HDRP(p))
          /\ s + DSIZE <= GET_SIZE(H, HDRP(p))
          /\ mm_realloc(H, p, s).path = "inplace"

\* C22: every mm_malloc call asks the arena at most once; the first
\* mm_malloc(s) after mm_init asks it exactly once, for exactly adjust(s)
\* bytes; a call that finds a fit asks it zero times.
AsksAtMostOnce(r) ==
    /\ r.nsbrk <= 1
    /\ r.path = "fit" => r.nsbrk = 0
    /\ r.path = "zero" => r.nsbrk = 0

FirstAsksOnce(r, s) == r.nsbrk = 1 /\ r.asked = adjust(s) /\ r.path = "extend"

C22_ArenaRequests ==
    stat = "run" =>
        /\ \A s \in reqs \cup {0} : AsksAtMostOnce(mm_malloc(H, s))
        /\ JustInitialised => \A s \in reqs : FirstAsksOnce(mm_malloc(H, s), s)

\* C22, witness: one request is about to be served from a free list and
\* another is about to be refused by the arena.
C22_Witness ==
    /\ stat = "run"
    /\ \E s \in reqs : mm_malloc(H, s).path = "fit"
    /\ \E s \in reqs : mm_malloc(H, s).sbrkfail

\* the word counts extend_heap is probed with: an odd one and the counts
\* of a 2 * DSIZE and of a 3 * DSIZE block
ExtendWords == {3, (2 * DSIZE) \div WSIZE, (3 * DSIZE) \div WSIZE}

\* the block before the epilogue is free
TailFree(h) == GET_ALLOC(h, HDRP(PREV_BLKP(h, h.brk))) = 0

\* the bytes of an even number of words, at least words
EvenBytes(words) == ((words + 1) \div 2) * DSIZE

\* C23 as stated: extend_heap, on success, merges the new free block with
\* a free predecessor, inserts the result on the list of its size class
\* and returns the payload of the merged block.
MergedAndListed(h, e) ==
    e.ret # NULL =>
        /\ TailFree(h) => e.ret = PREV_BLKP(h, h.brk)
        /\ CountAll(e, e.ret, 0) = 1
        /\ Count(e, find_list(GET_SIZE(e, HDRP(e.ret))), e.ret) = 1

C23_ExtendCoalesces ==
    stat = "run" => \A w \in ExtendWords : MergedAndListed(H, extend_heap(H, w))

\* C23, amended: extend_heap, on success, asks the arena once for the even
\* number of words, stamps a free header and footer of that size on the new
\* region and an epilogue header after it, and returns the payload at the
\* old break; it merges with no neighbour, puts the block on no list and
\* changes no other word.
NewBlockUnlisted(h, e, size) ==
    e.ret # NULL =>
        /\ e.ret = h.brk
        /\ e.brk = h.brk + size
        /\ e.nsbrk = 1
        /\ GET(e, HDRP(e.ret)) = PACK(size, 0)
        /\ GET(e, e.ret + size - DSIZE) = PACK(size, 0)
        /\ GET(e, e.brk - WSIZE) = PACK(0, 1)
        /\ CountAll(e, e.ret, 0) = 0
        /\ \A i \in DOMAIN h.mem :
              i * WSIZE \notin {h.brk - WSIZE, e.ret + size - DSIZE, e.brk - WSIZE}
                  => e.mem[i] = h.mem[i]
        /\ ~e.oob

C23_ExtendLeavesUnlisted ==
    stat = "run" =>
        \A w \in ExtendWords : NewBlockUnlisted(H, extend_heap(H, w), EvenBytes(w))

\* C23, witness: the block before the epilogue is free and the arena is
\* about to grant an extension.
C23_Witness ==
    /\ stat = "run"
    /\ TailFree(H)
    /\ GET_SIZE(H, HDRP(PREV_BLKP(H, mem_brk))) >= 2 * DSIZE
    /\ CountAll(H, PREV_BLKP(H, mem_brk), 0) = 1
    /\ \E w \in ExtendWords : extend_heap(H, w).ret # NULL

\* the blocks on the eight free lists
Listed(h) ==
    UNION {{FreeList(h, idx)[k] : k \in DOMAIN FreeList(h, idx)} : idx \in 0 .. 7}

\* C24: in every reachable state in which mm_malloc skips find_fit because
\* adjust(size) = failedsize, no block of size >= adjust(size) is on any
\* free list.
HintSound(h, s) ==
    adjust(s) = h.failedsize =>
        \A b \in Listed(h) : GET_SIZE(h, HDRP(b)) < adjust(s)

C24_StickyHintSound == stat = "run" => \A s \in reqs : HintSound(H, s)

\* the block sizes find_fit is probed with
ProbeAsizes == {2 * DSIZE, 3 * DSIZE, 4 * DSIZE, 5 * DSIZE}

\* C25: between calls find_fit(asize) returns NULL if and only if no free
\* block of the heap has size >= asize.
FitExists(h, bs, asize) ==
    \E b \in FreeBlocks(h, bs) : GET_SIZE(h, HDRP(b)) >= asize

FindFitComplete(h, asize) ==
    (find_fit(h, asize) = NULL) <=> ~FitExists(h, Blocks(h), asize)

C25_FindFitComplete ==
    Served => \A asize \in ProbeAsizes : FindFitComplete(H, asize)

RECURSIVE SearchOrder(_, _)
\* the blocks of lists idx .. 7, each list from its head along the next links
SearchOrder(h, idx) ==
    IF idx >= 8 THEN <<>> ELSE FreeList(h, idx) \o SearchOrder(h, idx + 1)

\* C26: a block find_fit(asize) returns is the first block of size >= asize
\* in the order of the lists from find_list(asize) upwards, each from its
\* head along the next links; and the head of a list is the block inserted
\* last.
FirstInOrder(h, order, asize, b) ==
    b # NULL =>
        \E k \in DOMAIN order :
            /\ order[k] = b
            /\ GET_SIZE(h, HDRP(b)) >= asize
            /\ \A j \in 1 .. (k - 1) : GET_SIZE(h, HDRP(order[j])) < asize

FindFitFirst(h, asize) ==
    FirstInOrder(h, SearchOrder(h, find_list(asize)), asize, find_fit(h, asize))

\* the block that holds address p is the head of the list of its size
HeadHolds(f, p) ==
    \E idx \in 0 .. 7 :
        /\ GET(f, Slot(f, idx)) # NULL
        /\ GET(f, Slot(f, idx)) <= p
        /\ p < GET(f, Slot(f, idx)) + GET_SIZE(f, HDRP(GET(f, Slot(f, idx))))
        /\ idx = find_list(GET_SIZE(f, HDRP(GET(f, Slot(f, idx)))))
        /\ GET(f, PrevField(GET(f, Slot(f, idx)))) = NULL

C26_FirstFitOrder ==
    /\ Served => \A asize \in ProbeAsizes \cup {DSIZE} : FindFitFirst(H, asize)
    /\ stat = "run" => \A p \in live : HeadHolds(mm_free(H, p), p)

\* C26, witness: the head of a list is too small for a request that a
\* later block of the list fits.
C26_Witness ==
    /\ stat = "run"
    /\ \E asize \in ProbeAsizes :
          /\ find_fit(H, asize) # NULL
          /\ GET(H, Slot(H, find_list(asize))) # NULL
          /\ find_fit(H, asize) # GET(H, Slot(H, find_list(asize)))

\* C27: place(bp, asize, flag) on a free block of csize >= asize bytes: if
\* csize - asize >= 2 * DSIZE it leaves an allocated block of asize bytes
\* at bp and after it a free block of csize - asize bytes on list
\* find_list(csize - asize); otherwise it marks the whole block allocated
\* and inserts nothing; the bytes covered are those of the original block;
\* bp is unlinked first exactly when flag is true.
Stamped(r, bp, size, alloc) ==
    /\ GET(r, HDRP(bp)) = PACK(size, alloc)
    /\ GET(r, bp + size - DSIZE) = PACK(size, alloc)

Placed(h, r, bp, asize, csize, before) ==
    /\ IF csize - asize >= 2 * DSIZE
       THEN /\ Stamped(r, bp, asize, 1)
            /\ Stamped(r, bp + asize, csize - asize, 0)
            /\ Count(r, find_list(csize - asize), bp + asize) = 1
            /\ CountAll(r, bp + asize, 0) = 1
            /\ Listed(r) = before \cup {bp + asize}
            /\ NEXT_BLKP(r, NEXT_BLKP(r, bp)) = bp + csize
       ELSE /\ Stamped(r, bp, csize, 1)
            /\ Listed(r) = before
            /\ NEXT_BLKP(r, bp) = bp + csize
    /\ GET(r, HDRP(bp + csize)) = GET(h, HDRP(bp + csize))
    /\ r.brk = h.brk
    /\ ~r.oob

\* flag true, on a block of a free list
PlacedListed(h, bp, asize) ==
    asize <= GET_SIZE(h, HDRP(bp)) =>
        Placed(h, place(h, bp, asize, TRUE), bp, asize, GET_SIZE(h, HDRP(bp)),
               Listed(h) \ {bp})

\* flag false, on the block extend_heap returns
PlacedFresh(e, asize) ==
    (e.ret # NULL /\ asize <= GET_SIZE(e, HDRP(e.ret))) =>
        Placed(e, place(e, e.ret, asize, FALSE), e.ret, asize,
               GET_SIZE(e, HDRP(e.ret)), Listed(e))

C27_Place ==
    stat = "run" =>
        \A asize \in ProbeAsizes \cup {DSIZE} :
            /\ \A bp \in Listed(H) : PlacedListed(H, bp, asize)
            /\ \A w \in ExtendWords \cup {(4 * DSIZE) \div WSIZE} :
                  PlacedFresh(extend_heap(H, w), asize)

\* C27, witness: a listed block of 4 * DSIZE bytes, which a request of
\* 2 * DSIZE bytes splits and a request of 3 * DSIZE bytes takes whole,
\* beside a held block, with room left in the arena.
C27_Witness ==
    /\ stat = "run"
    /\ live # {}
    /\ \E bp \in Listed(H) : GET_SIZE(H, HDRP(bp)) = 4 * DSIZE
    /\ \E w \in ExtendWords : extend_heap(H, w).ret # NULL

\* the two stores of mm_free that mark a block free before coalesce
MarkFree(h, bp) ==
    PUT(PUT(h, HDRP(bp), PACK(GET_SIZE(h, HDRP(bp)), 0)),
        bp + GET_SIZE(h, HDRP(bp)) - DSIZE, PACK(GET_SIZE(h, HDRP(bp)), 0))

\* the neighbours of bp by the boundary tags, and whether they are free
PrevOf(h, bp) == bp - GET_SIZE(h, bp - DSIZE)

NextOf(h, bp) == bp + GET_SIZE(h, HDRP(bp))

PrevFree(h, bp) == GET(h, bp - DSIZE) % 2 = 0

NextFree(h, bp) == GET(h, HDRP(NextOf(h, bp))) % 2 = 0

\* C28: coalesce(bp) on a block just marked free and on no list returns the
\* lowest free block among prev, bp, next; its size is the sum of bp's size
\* and the sizes of the free neighbours; its header and footer hold
\* (sum, 0); every merged neighbour is off its list; the result is on list
\* find_list(sum); allocated neighbours are untouched.
MergedStart(h, bp) == IF PrevFree(h, bp) THEN PrevOf(h, bp) ELSE bp

MergedSize(h, bp) ==
    GET_SIZE(h, HDRP(bp))
    + (IF PrevFree(h, bp) THEN GET_SIZE(h, HDRP(PrevOf(h, bp))) ELSE 0)
    + (IF NextFree(h, bp) THEN GET_SIZE(h, HDRP(NextOf(h, bp))) ELSE 0)

Merged(h, r, bp) ==
    /\ r.ret = MergedStart(h, bp)
    /\ Stamped(r, r.ret, MergedSize(h, bp), 0)
    /\ Count(r, find_list(MergedSize(h, bp)), r.ret) = 1
    /\ CountAll(r, r.ret, 0) = 1
    /\ Listed(r) = (Listed(h) \ {PrevOf(h, bp), NextOf(h, bp)}) \cup {r.ret}
    /\ ~PrevFree(h, bp) =>
          /\ GET(r, bp - DSIZE) = GET(h, bp - DSIZE)
          /\ GET(r, HDRP(PrevOf(h, bp))) = GET(h, HDRP(PrevOf(h, bp)))
    /\ ~NextFree(h, bp) =>
          /\ GET(r, HDRP(NextOf(h, bp))) = GET(h, HDRP(NextOf(h, bp)))
          /\ Listed(r) \cap {NextOf(h, bp)} = {}
    /\ r.brk = h.brk
    /\ ~r.oob

CoalesceMerges(b, bp) == Merged(b, coalesce(b, bp), bp)

C28_Coalesce ==
    stat = "run" => \A p \in live : CoalesceMerges(MarkFree(H, p), p)

\* the upper bounds of the size classes 0 .. 6
Thresholds == {64, 128, 256, 512, 1024, 2048, 4096}

\* the sizes find_list is probed with: at, just below and just above each
\* bound, and the ends of the word range
ProbeBlockSizes ==
    {t + d : t \in Thresholds, d \in {-1, 0, 1}}
    \cup {0, DSIZE, 2 * DSIZE, Modulus - DSIZE, Modulus - 1}

\* the number of bounds below s
Class(s) == Cardinality({t \in Thresholds : t < s})

\* C29: find_list is total and monotone non-decreasing, its result is in
\* [0, 8), and it follows the bounds <=64 -> 0, <=128 -> 1, <=256 -> 2,
\* <=512 -> 3, <=1024 -> 4, <=2048 -> 5, <=4096 -> 6, larger -> 7.
C29_FindListSteps ==
    /\ \A s \in ProbeBlockSizes :
          find_list(s) \in 0 .. 7 /\ find_list(s) = Class(s)
    /\ \A a \in ProbeBlockSizes, b \in ProbeBlockSizes :
          a <= b => find_list(a) <= find_list(b)
    /\ \A b \in Listed(H) : find_list(GET_SIZE(H, HDRP(b))) \in 0 .. 7

\* C29, witness: a block of more than 64 bytes is on list 1 and the caller
\* holds a block.
C29_Witness ==
    /\ stat = "run"
    /\ live # {}
    /\ FreeList(H, 1) # <<>>
    /\ GET_SIZE(H, HDRP(FreeList(H, 1)[1])) > 64
    /\ Count(H, find_list(GET_SIZE(H, HDRP(FreeList(H, 1)[1]))), FreeList(H, 1)[1]) = 1

\* the ceiling of x / d for naturals x and d > 0
Ceiling(x, d) == IF x % d = 0 THEN x \div d ELSE (x \div d) + 1

CeilingSize(s) ==
    IF s <= DSIZE
    THEN 2 * DSIZE
    ELSE DSIZE * Ceiling(s + DSIZE + DSIZE - 1, DSIZE)

\* the largest multiple of DSIZE not above s + DSIZE + (DSIZE - 1), in the
\* arithmetic of size_t
QuotientSize(s) ==
    IF s <= DSIZE
    THEN 2 * DSIZE
    ELSE W(W(s + DSIZE + (DSIZE - 1)) - (W(s + DSIZE + (DSIZE - 1)) % DSIZE))

\* C30 as stated: the block size computed for a request of size bytes is
\* 2*DSIZE when size <= DSIZE, and otherwise DSIZE times the ceiling of
\* (size + DSIZE + DSIZE - 1) / DSIZE.
C30_CeilingAdjust ==
    \A s \in reqs : s > 0 => adjust(s) = CeilingSize(s)

MallocAdjusts(r, s) ==
    r.path = "extend" =>
        /\ r.asked = QuotientSize(s)
        /\ r.ret # NULL => GET_SIZE(r, HDRP(r.ret)) = QuotientSize(s)

ReallocAdjusts(h, r, p, s) ==
    /\ (r.path = "inplace") = (QuotientSize(s) <= GET_SIZE(h, HDRP(p)))
    /\ r.path = "tail" /\ ~r.sbrkfail =>
          GET_SIZE(r, HDRP(p)) = QuotientSize(s)

\* C30, amended: the block size computed for a request of size bytes is
\* 2*DSIZE when size <= DSIZE, and otherwise DSIZE times the integer
\* quotient of (size + DSIZE + DSIZE - 1) by DSIZE in the arithmetic of
\* size_t; when the sum does not wrap this is the least multiple of DSIZE
\* not below size + DSIZE.  mm_malloc extends the arena by that size and
\* mm_realloc keeps a block in place exactly when that size fits it.
C30_QuotientAdjust ==
    /\ \A s \in reqs : s > 0 =>
          /\ adjust(s) = QuotientSize(s)
          /\ s > DSIZE /\ s + DSIZE + (DSIZE - 1) < Modulus =>
                /\ adjust(s) % DSIZE = 0
                /\ adjust(s) >= s + DSIZE
                /\ adjust(s) - DSIZE < s + DSIZE
    /\ stat = "run" =>
          \A s \in reqs : s > 0 =>
              /\ MallocAdjusts(mm_malloc(H, s), s)
              /\ \A p \in live : ReallocAdjusts(H, mm_realloc(H, p, s), p, s)

\* C30, witness: a request of 24 bytes, for which the quotient is not
\* whole, has been served with a block of 3*DSIZE bytes.
C30_Witness ==
    /\ stat = "run"
    /\ 24 \in reqs
    /\ CeilingSize(24) # QuotientSize(24)
    /\ \E p \in live : GET_SIZE(H, HDRP(p)) = QuotientSize(24)

\* p is the last block before the epilogue and s needs more than p's block
GrowsAtTail(h, p, s) ==
    /\ adjust(s) > GET_SIZE(h, HDRP(p))
    /\ GET_SIZE(h, HDRP(NEXT_BLKP(h, p))) = 0

\* C31: when mm_realloc(p, s) has adjust(s) > old block size, the block
\* after p is the epilogue and the arena grants the extension, the arena
\* grows by exactly adjust(s) - old bytes, p is returned unchanged, p's
\* header and footer hold (adjust(s), 1), the epilogue (0, 1) is the last
\* word of the arena, no free block is created and no free list changes.
GrownAtTail(h, r, p, s) ==
    /\ r.brk = h.brk + (adjust(s) - GET_SIZE(h, HDRP(p)))
    /\ r.nsbrk = 1
    /\ r.ret = p
    /\ Stamped(r, p, adjust(s), 1)
    /\ GET(r, r.brk - WSIZE) = PACK(0, 1)
    /\ NEXT_BLKP(r, p) = r.brk
    /\ FreeBlocks(r, Blocks(r)) = FreeBlocks(h, Blocks(h))
    /\ \A idx \in 0 .. 7 : FreeList(r, idx) = FreeList(h, idx)
    /\ \A b \in Listed(h) :
          GET(r, PrevField(b)) = GET(h, PrevField(b))
          /\ GET(r, NextField(b)) = GET(h, NextField(b))
          /\ GET(r, HDRP(b)) = GET(h, HDRP(b))

TailGrowth(h, r, p, s) ==
    (GrowsAtTail(h, p, s) /\ ~r.sbrkfail) => GrownAtTail(h, r, p, s)

C31_TailGrowth ==
    stat = "run" =>
        \A p \in live, s \in reqs : TailGrowth(H, mm_realloc(H, p, s), p, s)

\* C31, witness: the last block of the heap is held, a free block is on a
\* list, and a request that needs a larger block can be granted.
C31_Witness ==
    /\ stat = "run"
    /\ Listed(H) # {}
    /\ \E p \in live, s \in reqs :
          /\ GrowsAtTail(H, p, s)
          /\ mm_realloc(H, p, s).path = "tail"
          /\ ~mm_realloc(H, p, s).sbrkfail

\* the word addresses of the n bytes from a
Span(a, n) == {a + (k * WSIZE) : k \in 0 .. (((n + WSIZE - 1) \div WSIZE) - 1)}

Moved(r) == r.path = "move" /\ r.ret # NULL /\ r.stat = "run"

ReadsOldPayloadOnly(h, r, p) ==
    /\ r.copied = GET_SIZE(h, HDRP(p)) - DSIZE
    /\ Span(p, r.copied) \subseteq Payload(h, p)
    /\ FTRP(h, p) \notin Span(p, r.copied)
    /\ HDRP(NEXT_BLKP(h, p)) \notin Span(p, r.copied)

WritesNewPayloadOnly(r) == Span(r.ret, r.copied) \subseteq Payload(r, r.ret)

\* C32: when mm_realloc relocates a block of size old, it copies exactly
\* old - DSIZE bytes, the payload only, from the old block to the new one:
\* it reads no word beyond the old payload (neither the old footer nor the
\* next block's header) and writes no word beyond the new block's payload.
CopiesPayloadOnly(h, r, p) ==
    Moved(r) => (ReadsOldPayloadOnly(h, r, p) /\ WritesNewPayloadOnly(r))

C32_CopiesPayloadOnly ==
    stat = "run" =>
        \A p \in live, s \in reqs : CopiesPayloadOnly(H, mm_realloc(H, p, s), p)

\* the elements of sequence q are pairwise different
Distinct(q) == \A i \in DOMAIN q, j \in DOMAIN q : i # j => q[i] # q[j]

\* list idx of heap h is a doubly-linked list that ends in null
WellLinked(h, idx) ==
    /\ \A k \in DOMAIN FreeList(h, idx) :
          /\ InArena(h, FreeList(h, idx)[k])
          /\ GET(h, PrevField(FreeList(h, idx)[k]))
                = (IF k = 1 THEN NULL ELSE FreeList(h, idx)[k - 1])
    /\ Distinct(FreeList(h, idx))
    /\ FreeList(h, idx) # <<>> =>
          GET(h, NextField(FreeList(h, idx)[Len(FreeList(h, idx))])) = NULL

\* C33: in every reachable quiescent state each of the 8 free lists is a
\* well-formed doubly-linked list: the head block's prev is null, for every
\* block x on a list with non-null next, x.next.prev = x, the list is
\* acyclic and ends in null, and no block is on two lists; hence the
\* traversal in find_fit terminates.
ListsWellFormed(h) ==
    /\ \A idx \in 0 .. 7 : WellLinked(h, idx)
    /\ \A b \in Listed(h) : CountAll(h, b, 0) = 1

\* The state a call leads to is quiescent too, also when the call starts
\* in a state where a link word has been written over a tag.
C33_ListsWellFormed ==
    /\ Served => ListsWellFormed(H)
    /\ stat \in {"run", "corrupt"} =>
          \A s \in reqs : ListsWellFormed(mm_malloc(H, s))

\* the words between the header and the footer of block bp
Between(h, bp) == {a \in (HDRP(bp) + WSIZE) .. (FTRP(h, bp) - WSIZE) : a % WSIZE = 0}

\* C34: after mm_init returns 0 the free-list head array block stays
\* allocated forever: no later call changes its header or footer or merges
\* it with a neighbour, it offers exactly 8 head slots between its header
\* and footer, and every head slot read or written by insert_free,
\* remove_free and find_fit has an index in [0, 8) and holds either null
\* or the payload address of a free block.
HeadBlockKept(h) ==
    /\ h.free_listp = mem_start_brk + (4 * WSIZE)
    /\ Stamped(h, h.free_listp, 10 * WSIZE, 1)
    /\ Between(h, h.free_listp) = HeadArray(h)
    /\ Cardinality(HeadArray(h)) = 8

HeadSlotsSound(h, bs) ==
    /\ \A idx \in 0 .. 7 :
          GET(h, Slot(h, idx)) = NULL
          \/ GET(h, Slot(h, idx)) \in FreeBlocks(h, bs)
    /\ \A b \in Listed(h) \cup FreeBlocks(h, bs) :
          /\ find_list(GET_SIZE(h, HDRP(b))) \in 0 .. 7
          /\ Slot(h, find_list(GET_SIZE(h, HDRP(b)))) \in HeadArray(h)
    /\ \A asize \in ProbeAsizes : Slot(h, find_list(asize)) \in HeadArray(h)

HeadBlock(h) == HeadBlockKept(h) /\ HeadSlotsSound(h, Blocks(h))

\* The state a call leads to is quiescent too, also when the call starts
\* in a state where a link word has been written over a tag.
C34_HeadBlock ==
    /\ Served => HeadBlock(H)
    /\ stat \in {"run", "corrupt"} =>
          \A p \in live : HeadBlock(mm_free(H, p))

\* a call whose arena requests were all granted stored no word outside the
\* arena and loaded no header outside it
InsideArena(r) == ~r.sbrkfail => (~r.oob /\ ~r.wild /\ r.stat # "ub")

\* C35: every word read or written by mm_init, mm_malloc, mm_free and
\* mm_realloc (called with live non-null pointers, every arena extension
\* succeeding) lies inside the arena extent obtained so far, between the
\* first byte returned by the first mem_sbrk and the last byte of the
\* latest extension.
C35_InsideArena ==
    /\ stat = "start" => InsideArena(mm_init(H))
    /\ stat = "run" =>
          /\ \A s \in reqs : InsideArena(mm_malloc(H, s))
          /\ \A p \in live : InsideArena(mm_free(H, p))
          /\ \A p \in live, s \in reqs : InsideArena(mm_realloc(H, p, s))

\* C36: in every reachable quiescent state (arena extensions succeeding)
\* every block after the head array block and before the epilogue,
\* allocated or free, has a size that is a multiple of DSIZE and at least
\* 2*DSIZE, so every free block has room for its prev and next link words
\* between header and footer.
RoomForLinks(h, bs) ==
    \A k \in DOMAIN bs :
        k > 2 =>
            /\ GET_SIZE(h, HDRP(bs[k])) % DSIZE = 0
            /\ GET_SIZE(h, HDRP(bs[k])) >= 2 * DSIZE
            /\ GET_ALLOC(h, HDRP(bs[k])) = 0 =>
                  {PrevField(bs[k]), NextField(bs[k])} \subseteq Between(h, bs[k])

C36_RoomForLinks == (Served /\ AllGranted) => RoomForLinks(H, Blocks(H))

\* the layout invariants of heap h with walk bs
LayoutHolds(h, bs) ==
    /\ GET(h, HDRP(h.heap_listp)) = PACK(DSIZE, 1)
    /\ HeaderIsFooter(h, bs)
    /\ \A k \in DOMAIN bs : bs[k] % DSIZE = 0
    /\ GET(h, HDRP(EndOf(h, bs))) = PACK(0, 1)

\* C37: checkheap is read-only and, on every heap that satisfies the
\* layout invariants (prologue (DSIZE, 1), header equal to footer in every
\* block, DSIZE-aligned payloads, epilogue (0, 1)), it terminates at the
\* epilogue and reports no error; it reports a bad prologue or epilogue
\* only when the corresponding sentinel does not hold the required value.
CheckedClean(h, r, bs) ==
    /\ Untouched(h, r)
    /\ LayoutHolds(h, bs) =>
          /\ r.path = "end"
          /\ r.ret = EndOf(h, bs)
          /\ r.reports = {}
    /\ "Bad prologue header" \in r.reports =>
          GET(h, HDRP(h.heap_listp)) # PACK(DSIZE, 1)
    /\ "Bad epilogue header" \in r.reports =>
          (r.path = "end" /\ GET(h, HDRP(r.ret)) # PACK(0, 1))

C37_CheckHeap ==
    Served => \A verbose \in BOOLEAN : CheckedClean(H, checkheap(H, verbose), Blocks(H))

(***************************************************************************)
(* The variant of src/unnamed/part_001.  Its macros, find_list,            *)
(* insert_free, remove_free, mm_init, coalesce and find_fit have the       *)
(* statements of mm.c; it has no failedsize, its extend_heap returns       *)
(* coalesce(bp), its place always unlinks the block, and its mm_realloc    *)
(* works on the requested size itself.                                     *)
(***************************************************************************)
extend_heap_001(h, words) ==
    Let(IF words % 2 = 1 THEN W((words + 1) * WSIZE) ELSE W(words * WSIZE),
        LAMBDA size :
    Let(mem_sbrk(h, size), LAMBDA s :
        IF s.ret = SBRK_FAIL
        THEN [s EXCEPT !.ret = NULL]
        ELSE Let(s.ret, LAMBDA bp :
             Let(PUT(s, HDRP(bp), PACK(size, 0)), LAMBDA a :
             Let(PUT(a, FTRP(a, bp), PACK(size, 0)), LAMBDA b :
             Let(PUT(b, HDRP(NEXT_BLKP(b, bp)), PACK(0, 1)), LAMBDA c :
                 coalesce(c, bp)))))))

place_001(h, bp, asize) ==
    Let(GET_SIZE(h, HDRP(bp)), LAMBDA csize :
        IF W(csize - asize) >= 2 * DSIZE
        THEN Let(remove_free(h, bp), LAMBDA r :
             Let(PUT(r, HDRP(bp), PACK(asize, 1)), LAMBDA a :
             Let(PUT(a, FTRP(a, bp), PACK(asize, 1)), LAMBDA b :
             Let(NEXT_BLKP(b, bp), LAMBDA nb :
             Let(insert_free(b, W(csize - asize), nb), LAMBDA c :
             Let(PUT(c, HDRP(nb), PACK(W(csize - asize), 0)), LAMBDA d :
                 PUT(d, FTRP(d, nb), PACK(W(csize - asize), 0))))))))
        ELSE Let(remove_free(h, bp), LAMBDA r :
             Let(PUT(r, HDRP(bp), PACK(csize, 1)), LAMBDA a :
                 PUT(a, FTRP(a, bp), PACK(csize, 1)))))

mm_malloc_001(h, size) ==
    IF size = 0
    THEN [h EXCEPT !.ret = NULL, !.path = "zero"]
    ELSE Let(adjust(size), LAMBDA asize :
         Let(find_fit(h, asize), LAMBDA bp :
             IF bp # NULL
             THEN [place_001(h, bp, asize) EXCEPT !.ret = bp, !.path = "fit"]
             ELSE Let(extend_heap_001(h, asize \div WSIZE), LAMBDA e :
                  IF e.ret = NULL
                  THEN [e EXCEPT !.path = "extend"]
                  ELSE [place_001(e, e.ret, asize)
                            EXCEPT !.ret = e.ret, !.path = "extend"])))

mm_free_001(h, bp) ==
    IF bp = NULL
    THEN [h EXCEPT !.ret = NULL, !.path = "null"]
    ELSE Let(GET_SIZE(h, HDRP(bp)), LAMBDA size :
         Let(PUT(h, HDRP(bp), PACK(size, 0)), LAMBDA a :
         Let(PUT(a, FTRP(a, bp), PACK(size, 0)), LAMBDA b :
             [coalesce(b, bp) EXCEPT !.ret = NULL, !.path = "free"])))

\* the branch of mm_realloc_001 for size <= oldsize
shrink_001(h, ptr, size, oldsize) ==
    Let(PUT(h, HDRP(ptr), PACK(size, 1)), LAMBDA a :
    Let(PUT(a, FTRP(a, ptr), PACK(size, 1)), LAMBDA b :
        IF W(oldsize - size) >= 2 * DSIZE
        THEN Let(NEXT_BLKP(b, ptr), LAMBDA next_ptr :
             Let(insert_free(b, W(oldsize - size), next_ptr), LAMBDA c :
             Let(PUT(c, HDRP(next_ptr), PACK(W(oldsize - size), 0)), LAMBDA d :
             Let(PUT(d, FTRP(d, next_ptr), PACK(W(oldsize - size), 0)), LAMBDA e :
                 [e EXCEPT !.ret = ptr, !.path = "shrink"]))))
        ELSE [b EXCEPT !.ret = ptr, !.path = "shrink"]))

\* the branch of mm_realloc_001 for a free right neighbour
grow_001(h, ptr, size, oldsize) ==
    IF W(oldsize + GET_SIZE(h, HDRP(NEXT_BLKP(h, ptr)))) >= size
    THEN Let(PUT(h, HDRP(ptr), PACK(size, 1)), LAMBDA a :
         Let(PUT(a, FTRP(a, ptr), PACK(size, 1)), LAMBDA b :
             [b EXCEPT !.ret = ptr, !.path = "grow"]))
    ELSE [h EXCEPT !.ret = ptr, !.path = "stay"]

mm_realloc_001(h0, ptr, size) ==
    Let([h0 EXCEPT !.wild = @ \/ ~InArena(h0, HDRP(ptr))], LAMBDA h :
    Let(GET_SIZE(h, HDRP(ptr)), LAMBDA oldsize :
        IF size = 0
        THEN [mm_free_001(h, ptr) EXCEPT !.ret = NULL, !.path = "rfree"]
        ELSE IF ptr = NULL
        THEN mm_malloc_001(h, size)
        ELSE IF size <= oldsize
        THEN shrink_001(h, ptr, size, oldsize)
        ELSE IF NEXT_BLKP(h, ptr) # NULL
                /\ GET_ALLOC(h, HDRP(NEXT_BLKP(h, ptr))) = 0
        THEN grow_001(h, ptr, size, oldsize)
        ELSE Let(mm_malloc_001(h, size), LAMBDA m :
             Let(memcpy(m, m.ret, ptr, oldsize), LAMBDA c :
                 IF c.stat = "ub"
                 THEN [c EXCEPT !.ret = m.ret, !.path = "move"]
                 ELSE [mm_free_001(c, ptr) EXCEPT !.ret = m.ret, !.path = "move"]))))

\* the invariants of the heap layout and of the free lists
Sound(h, bs) ==
    /\ Tiling(h, bs)
    /\ HeaderIsFooter(h, bs)
    /\ RoomForLinks(h, bs)
    /\ ListsMatch(h, bs)
    /\ \A idx \in 0 .. 7 : WellLinked(h, idx)
    /\ Listed(h) \subseteq FreeBlocks(h, bs)

Malloc001 ==
    /\ stat = "run"
    /\ \E size \in reqs \cup {0} :
          \E r \in {mm_malloc_001(H, size)} :
              /\ Commit(r)
              /\ stat' = r.stat
              /\ live' = IF r.ret # NULL THEN live \cup {r.ret} ELSE live

Free001 ==
    /\ stat = "run"
    /\ \E p \in live \cup {NULL} :
          \E r \in {mm_free_001(H, p)} :
              /\ Commit(r)
              /\ stat' = r.stat
              /\ live' = live \ {p}

\* The run is not followed past a call of mm_realloc that left a heap
\* whose tags or lists are broken (stat "corrupt").
Realloc001 ==
    /\ stat = "run"
    /\ \E p \in live \cup {NULL}, size \in reqs \cup {0} :
          \E r \in {mm_realloc_001(H, p, size)} :
              \E fault \in (IF r.wild THEN BOOLEAN ELSE {FALSE}) :
                  IF fault
                  THEN /\ stat' = "ub"
                       /\ UNCHANGED <<mem, mem_brk, mem_max_addr, heap_listp,
                                      free_listp, failedsize, live, reqs, oom>>
                  ELSE /\ Commit(r)
                       /\ stat' = IF r.stat # "run" THEN r.stat
                                  ELSE IF Sound(r, Blocks(r)) THEN "run"
                                  ELSE "corrupt"
                       /\ live' = IF size = 0 THEN live \ {p}
                                  ELSE IF r.ret = NULL THEN live
                                  ELSE (live \ {p}) \cup {r.ret}

NextVariant == MmInit \/ Malloc001 \/ Free001 \/ Realloc001

\* double words of room in the arena where mm_realloc is asked for more
\* bytes than the block of the smaller request has
GrowUnits == 6

GrowHeap == InitBytes + (GrowUnits * DSIZE)

GrowSizes == {1, (2 * DSIZE) + WSIZE}

VariantConfigs ==
    Configs
    \cup {[max |-> mem_start_brk + GrowHeap, sizes |-> GrowSizes, image |-> FreshImage]}

InitVariant ==
    /\ \E c \in VariantConfigs :
          /\ mem = [i \in StoreWords(c.max) |->
                       IF i % 2 = 0 THEN c.image[1] ELSE c.image[2]]
          /\ mem_max_addr = c.max
          /\ reqs = c.sizes
    /\ mem_brk = mem_start_brk
    /\ heap_listp = NULL
    /\ free_listp = NULL
    /\ failedsize = 0
    /\ stat = "start"
    /\ live = {}
    /\ oom = FALSE

SpecVariant == InitVariant /\ [][NextVariant]_vars

\* a block of the walk is on a free list iff its alloc bit is 0, and no
\* other address is on a list
ListedIffFree(h, bs) == ListsMatch(h, bs) /\ Listed(h) \subseteq FreeBlocks(h, bs)

AfterPublic(h, bs) == Tiling(h, bs) /\ NoAdjacentFree(h, bs) /\ ListedIffFree(h, bs)

AfterPlace(r) == ListedIffFree(r, Blocks(r))

AfterExtend(e, asize) ==
    e.ret # NULL =>
        /\ ListedIffFree(e, Blocks(e))
        /\ AfterPlace(place_001(e, e.ret, asize))

Boundaries(h, asize, bp) ==
    IF bp # NULL
    THEN AfterPlace(place_001(h, bp, asize))
    ELSE AfterExtend(extend_heap_001(h, asize \div WSIZE), asize)

Granted(r) == ~r.sbrkfail => AfterPublic(r, Blocks(r))

\* C38: in the variant, for every sequence of mm_malloc and mm_free calls
\* on live pointers after mm_init (arena extensions succeeding), at every
\* boundary between extend_heap, place and the public functions a block is
\* on a free list if and only if its alloc bit is 0, and after each public
\* call the tiling holds and no two adjacent blocks are free, including
\* when the extension merges with a free tail block and place then splits
\* the merged block.
C38_VariantDiscipline ==
    (stat = "run" /\ AllGranted) =>
        /\ \A s \in reqs :
              /\ Boundaries(H, adjust(s), find_fit(H, adjust(s)))
              /\ Granted(mm_malloc_001(H, s))
        /\ \A p \in live : Granted(mm_free_001(H, p))

InPlace(r) == r.path \in {"shrink", "grow"}

\* C39: in the variant, mm_realloc(p, s) on a live pointer p with s > 0
\* keeps the heap well formed in its in-place branches: when it shrinks
\* (s <= old block size, splitting off the remainder when
\* old - s >= 2*DSIZE) and when it grows into a free right neighbour, every
\* resulting block size is a multiple of DSIZE of at least 2*DSIZE, header
\* equals footer, the tiling walk still reaches the epilogue, an absorbed
\* neighbour is no longer on any free list, and the returned block has at
\* least s bytes of payload.
InPlaceKeepsHeap(h, r, bs, p, s) ==
    InPlace(r) =>
        /\ r.ret = p
        /\ RoomForLinks(r, bs)
        /\ HeaderIsFooter(r, bs)
        /\ Tiling(r, bs)
        /\ r.path = "grow" => NEXT_BLKP(h, p) \notin Listed(r)
        /\ GET_SIZE(r, HDRP(r.ret)) - DSIZE >= s

ReallocKeepsHeap(h, r, p, s) == InPlaceKeepsHeap(h, r, Blocks(r), p, s)

C39_VariantReallocInPlace ==
    (stat = "run" /\ AllGranted) =>
        \A p \in live, s \in reqs :
            ReallocKeepsHeap(H, mm_realloc_001(H, p, s), p, s)

====
